---- MODULE Spec2Model ----
(***************************************************************************)
(* Model of the vitality-ai/go-sdk client: the FlatBuffers codec of        *)
(* utils/handlers (CreateFlatBuffer, GetDataVector, ParseFlatBuffer) at    *)
(* byte level, and the HTTP operations of client.go (Ciaos, Put,           *)
(* PutBinary, UpdateKey, Update, Append, Delete, Get).                     *)
(*                                                                         *)
(* Byte buffers are sequences of 0..255 addressed from offset 0, strings   *)
(* are TLA+ strings, Go's uint32 arithmetic is kept modulo 2^32.           *)
(***************************************************************************)
EXTENDS Integers, Sequences, FiniteSets, TLC

VARIABLES
    dataList,   \* codec: the blob list handed to CreateFlatBuffer
    wire,       \* codec: the byte buffer between encoder and decoder
    decoded,    \* codec: what ParseFlatBuffer returned for wire
    phase,      \* codec: "input", "encoded", "truncated", "damaged", "extracted", "decoded..."
    config,     \* client: the Config the operations are invoked on
    call,       \* client: the last call, its arguments and its environment
    requests,   \* client: the requests handed to http.Client.Do by the last call
    opened,     \* client: the paths handed to os.Open by the last call
    ret,        \* client: what the last call returned
    panic,      \* whether a panic unwound out of the last call into its caller
    crashed     \* whether a fatal runtime error ended the process during the last call

codecVars == <<dataList, wire, decoded, phase>>
clientVars == <<config, call, requests, opened, ret>>
vars ==
    <<dataList, wire, decoded, phase, config, call, requests, opened, ret, panic, crashed>>

(***************************************************************************)
(* Bounds of the model.                                                    *)
(***************************************************************************)
MaxFiles == 2       \* longest blob list
MaxBlobLen == 2     \* longest blob

ByteVals == {7, 255}

RECURSIVE SeqsUpTo(_, _)
SeqsUpTo(S, n) ==
    IF n = 0 THEN {<<>>}
    ELSE LET shorter == SeqsUpTo(S, n - 1)
         IN  shorter \cup {Append(s, e) : s \in {t \in shorter : Len(t) = n - 1}, e \in S}

Blobs == SeqsUpTo(ByteVals, MaxBlobLen)
BlobLists == SeqsUpTo(Blobs, MaxFiles)

(***************************************************************************)
(* Go values: errors, fixed-width integers, little-endian scalars.         *)
(***************************************************************************)
\* Every record constructor of the module lists its fields in one fixed order,
\* the order in which the names first occur in the module.
NoErr == [nil |-> TRUE, msg |-> ""]
Errorf(m) == [nil |-> FALSE, msg |-> m]

SizeUOffsetT == 4
SizeSOffsetT == 4
SizeVOffsetT == 2
VtableMetadataFields == 2
U16 == 65536

Wrap16(x) == x % U16

\* A 32-bit word (UOffsetT, SOffsetT) is held as the int32 reading of its bit
\* pattern, -2^31 .. 2^31 - 1: a uint32 of 2^31 or more is a negative number here.
\* Add32 and Sub32 are Go's wrapping + and - on 32-bit words.
Lo16(w) == w % U16
Hi16(w) == (w - (w % U16)) \div U16
Join32(h, l) == (((h + 32768) % U16) - 32768) * U16 + l
Add32(a, b) ==
    LET l == Lo16(a) + Lo16(b)
    IN  Join32(Hi16(a) + Hi16(b) + (IF l >= U16 THEN 1 ELSE 0), l % U16)
Sub32(a, b) ==
    LET l == Lo16(a) - Lo16(b)
    IN  Join32(Hi16(a) - Hi16(b) - (IF l < 0 THEN 1 ELSE 0), l % U16)

Zeros(n) == [i \in 1..n |-> 0]

LE16(x) == LET u == Wrap16(x) IN <<u % 256, u \div 256>>
LE32(w) == LE16(Lo16(w)) \o LE16(Hi16(w))

Max(a, b) == IF a > b THEN a ELSE b

(***************************************************************************)
(* Raw buffer access (offsets count from 0).                               *)
(***************************************************************************)
ReadLE16(buf, off) == buf[off + 1] + 256 * buf[off + 2]
ReadLE32(buf, off) ==
    Join32(buf[off + 3] + 256 * buf[off + 4], buf[off + 1] + 256 * buf[off + 2])
WriteAt(buf, off, bytes) ==
    [i \in 1..Len(buf) |->
        IF i > off /\ i <= off + Len(bytes) THEN bytes[i - off] ELSE buf[i]]

(***************************************************************************)
(* flatbuffers.Builder.  The builder fills its buffer from the end; buf is *)
(* Bytes[head:], so Offset() is Len(buf) and every write prepends.         *)
(***************************************************************************)
NewBuilder ==
    [buf |-> <<>>, minalign |-> 1, vtable |-> <<>>, objectEnd |-> 0, vtables |-> <<>>]

Offset(b) == Len(b.buf)

\* alignSize = (^(len(Bytes) - head + additionalBytes) + 1) & (size - 1)
Prep(b, size, additionalBytes) ==
    LET alignSize == (size - ((Len(b.buf) + additionalBytes) % size)) % size
    IN  [b EXCEPT !.minalign = Max(@, size), !.buf = Zeros(alignSize) \o @]

PlaceUOffsetT(b, x) == [b EXCEPT !.buf = LE32(x) \o @]

PrependUOffsetT(b, off) ==
    LET p == Prep(b, SizeUOffsetT, 0)
    IN  PlaceUOffsetT(p, Offset(p) - off + SizeUOffsetT)

PrependSOffsetT(b, off) ==
    LET p == Prep(b, SizeSOffsetT, 0)
    IN  PlaceUOffsetT(p, Offset(p) - off + SizeSOffsetT)

PrependVOffsetT(b, x) ==
    LET p == Prep(b, SizeVOffsetT, 0)
    IN  [p EXCEPT !.buf = LE16(x) \o @]

StartVector(b, elemSize, numElems, alignment) ==
    Prep(Prep(b, SizeUOffsetT, elemSize * numElems), alignment, elemSize * numElems)

\* returns the builder and the vector's offset
EndVector(b, vectorNumElems) ==
    LET p == PlaceUOffsetT(b, vectorNumElems)
    IN  [b |-> p, off |-> Offset(p)]

CreateByteVector(b, v) ==
    LET p == Prep(b, SizeUOffsetT, Len(v))
    IN  EndVector([p EXCEPT !.buf = v \o @], Len(v))

StartObject(b, numfields) ==
    [b EXCEPT !.vtable = Zeros(numfields), !.objectEnd = Offset(b)]

Slot(b, slotnum) == [b EXCEPT !.vtable[slotnum + 1] = Offset(b)]

PrependUOffsetTSlot(b, o, x, d) ==
    IF x # d THEN Slot(PrependUOffsetT(b, x), o) ELSE b

RECURSIVE TrimZeros(_)
TrimZeros(vt) ==
    IF vt # <<>> /\ vt[Len(vt)] = 0 THEN TrimZeros(SubSeq(vt, 1, Len(vt) - 1)) ELSE vt

\* vtableEqual(a, objectStart, b): b is the field part of a written vtable
vtableEqual(a, objectStart, vt2) ==
    /\ Len(a) * SizeVOffsetT = Len(vt2)
    /\ \A i \in 1..Len(a) :
          LET x == ReadLE16(vt2, (i - 1) * SizeVOffsetT)
          IN  \/ x = 0 /\ a[i] = 0
              \/ x = Wrap16(objectStart - a[i])

\* the search loop of WriteVtable, from the newest vtable back; 0 if none matches
RECURSIVE FindVtable(_, _, _, _)
FindVtable(b, vt, objectOffset, i) ==
    IF i = 0 THEN 0
    ELSE LET vt2Offset == b.vtables[i]
             vt2Start == Len(b.buf) - vt2Offset
             vt2Len == ReadLE16(b.buf, vt2Start)
             metadata == VtableMetadataFields * SizeVOffsetT
             vt2 == SubSeq(b.buf, vt2Start + metadata + 1, vt2Start + vt2Len)
         IN  IF vtableEqual(vt, objectOffset, vt2) THEN vt2Offset
             ELSE FindVtable(b, vt, objectOffset, i - 1)

\* the vtable's field entries, written last field first
RECURSIVE PrependVtableFields(_, _, _, _)
PrependVtableFields(b, vt, objectOffset, i) ==
    IF i = 0 THEN b
    ELSE LET off == IF vt[i] # 0 THEN objectOffset - vt[i] ELSE 0
         IN  PrependVtableFields(PrependVOffsetT(b, off), vt, objectOffset, i - 1)

\* returns the builder and the object's offset
WriteVtable(b) ==
    LET p == PrependSOffsetT(b, 0)
        objectOffset == Offset(p)
        vt == TrimZeros(p.vtable)
        existingVtable == FindVtable(p, vt, objectOffset, Len(p.vtables))
        fresh ==
            LET f == PrependVtableFields(p, vt, objectOffset, Len(vt))
                s == PrependVOffsetT(f, objectOffset - p.objectEnd)
                v == PrependVOffsetT(s, (Len(vt) + VtableMetadataFields) * SizeVOffsetT)
                objectStart == Len(v.buf) - objectOffset
            IN  [v EXCEPT !.buf = WriteAt(@, objectStart, LE32(Offset(v) - objectOffset)),
                          !.vtables = Append(@, Offset(v)),
                          !.vtable = <<>>]
        shared ==
            [p EXCEPT !.buf = WriteAt(@, 0, LE32(existingVtable - objectOffset)),
                      !.vtable = <<>>]
    IN  [b |-> IF existingVtable = 0 THEN fresh ELSE shared, off |-> objectOffset]

EndObject(b) == WriteVtable(b)

Finish(b, rootTable) ==
    PrependUOffsetT(Prep(b, b.minalign, SizeUOffsetT), rootTable)

(***************************************************************************)
(* The generated builders of utils/flatbuffer (tables FileData{data} and   *)
(* FileDataList{files}, one field each in slot 0).                         *)
(***************************************************************************)
FileDataStart(b) == StartObject(b, 1)
FileDataAddData(b, data) == PrependUOffsetTSlot(b, 0, data, 0)
FileDataEnd(b) == EndObject(b)
FileDataListStartFilesVector(b, numElems) == StartVector(b, 4, numElems, 4)
FileDataListStart(b) == StartObject(b, 1)
FileDataListAddFiles(b, files) == PrependUOffsetTSlot(b, 0, files, 0)
FileDataListEnd(b) == EndObject(b)

(***************************************************************************)
(* handlers.CreateFlatBuffer                                               *)
(***************************************************************************)
\* (mutation of BuildFiles: the offsets appended to the slice made with len(dataList)
\* zero entries instead of stored at index i)
RECURSIVE BuildFilesAppended(_, _, _, _)
BuildFilesAppended(b, list, i, fileDataOffsets) ==
    IF i > Len(list) THEN [b |-> b, offs |-> Zeros(Len(list)) \o fileDataOffsets]
    ELSE LET dv == CreateByteVector(b, list[i])
             fd == FileDataEnd(FileDataAddData(FileDataStart(dv.b), dv.off))
         IN  BuildFilesAppended(fd.b, list, i + 1, Append(fileDataOffsets, fd.off))

\* the first loop: one byte vector and one FileData table per blob
RECURSIVE BuildFiles(_, _, _, _)
BuildFiles(b, list, i, fileDataOffsets) ==
    IF i > Len(list) THEN [b |-> b, offs |-> fileDataOffsets]
    ELSE LET dv == CreateByteVector(b, list[i])
             fd == FileDataEnd(FileDataAddData(FileDataStart(dv.b), dv.off))
         IN  BuildFiles(fd.b, list, i + 1, Append(fileDataOffsets, fd.off))

\* (mutation of PrependOffsets: the offsets prepended in ascending index order)
RECURSIVE PrependOffsetsAscending(_, _, _)
PrependOffsetsAscending(b, fileDataOffsets, i) ==
    IF i = 0 THEN b
    ELSE PrependOffsetsAscending(
             PrependUOffsetT(b, fileDataOffsets[Len(fileDataOffsets) - i + 1]),
             fileDataOffsets, i - 1)

\* the second loop: for i := len - 1; i >= 0; i-- { PrependUOffsetT(offsets[i]) }
RECURSIVE PrependOffsets(_, _, _)
PrependOffsets(b, fileDataOffsets, i) ==
    IF i = 0 THEN b
    ELSE PrependOffsets(PrependUOffsetT(b, fileDataOffsets[i]), fileDataOffsets, i - 1)

\* lines 36-41: the files vector, from the FileData offsets
FilesVector(files) ==
    EndVector(PrependOffsets(FileDataListStartFilesVector(files.b, Len(files.offs)),
                             files.offs, Len(files.offs)),
              Len(files.offs))

\* lines 42-44: the root table
RootTable(filesVector) ==
    FileDataListEnd(FileDataListAddFiles(FileDataListStart(filesVector.b), filesVector.off))

\* lines 45-49: Finish, then Bytes[Head():]
Finished(root) == [bytes |-> Finish(root.b, root.off).buf, err |-> NoErr]

CreateFlatBuffer(list) ==
    Finished(RootTable(FilesVector(BuildFiles(NewBuilder, list, 1, <<>>))))

(***************************************************************************)
(* Reading.  A Go slice expression or index out of range panics; a read    *)
(* returns [ok |-> FALSE] for a panic and [ok |-> TRUE, v |-> value]       *)
(* otherwise.                                                              *)
(***************************************************************************)
Ok(v) == [v |-> v, ok |-> TRUE]
Panicked == [v |-> 0, ok |-> FALSE]

\* GetUOffsetT(buf[off:]) / GetSOffsetT(buf[off:]): buf[off:] then `_ = buf[3]`
GetUOffsetT(buf, off) ==
    IF off >= 0 /\ off <= Len(buf) - SizeUOffsetT THEN Ok(ReadLE32(buf, off)) ELSE Panicked
GetSOffsetT(buf, off) == GetUOffsetT(buf, off)
\* GetVOffsetT(buf[off:]): buf[off:] then `_ = buf[1]`
GetVOffsetT(buf, off) ==
    IF off >= 0 /\ off <= Len(buf) - SizeVOffsetT THEN Ok(ReadLE16(buf, off)) ELSE Panicked
\* GetByte(buf[off:]): buf[off:] then buf[0]
GetByte(buf, off) ==
    IF off >= 0 /\ off <= Len(buf) - 1 THEN Ok(buf[off + 1]) ELSE Panicked

\* i < n for a Go int i >= 0 and n the int of a uint32 word
IntLess(i, n) == n < 0 \/ i < n

(***************************************************************************)
(* flatbuffers.Table: [Bytes, Pos]                                         *)
(***************************************************************************)
TableOffset(t, vtableOffset) ==
    LET so == GetSOffsetT(t.Bytes, t.Pos)
        vtable == Sub32(t.Pos, so.v)
        vlen == GetVOffsetT(t.Bytes, vtable)
    IN  IF ~so.ok \/ ~vlen.ok THEN Panicked
        ELSE IF vtableOffset < vlen.v
             THEN GetVOffsetT(t.Bytes, Add32(vtable, vtableOffset))
             ELSE Ok(0)

Indirect(t, off) ==
    LET g == GetUOffsetT(t.Bytes, off)
    IN  IF g.ok THEN Ok(Add32(off, g.v)) ELSE Panicked

VectorLen(t, o) ==
    LET off == Add32(o, t.Pos)
        g == GetUOffsetT(t.Bytes, off)
    IN  IF g.ok THEN GetUOffsetT(t.Bytes, Add32(off, g.v)) ELSE Panicked

Vector(t, o) ==
    LET off == Add32(o, t.Pos)
        g == GetUOffsetT(t.Bytes, off)
    IN  IF g.ok THEN Ok(Add32(Add32(off, g.v), SizeUOffsetT)) ELSE Panicked

(***************************************************************************)
(* The generated accessors of utils/flatbuffer.                            *)
(***************************************************************************)
ZeroTable == [Bytes |-> <<>>, Pos |-> 0]

GetRootAsFileDataList(buf, offset) ==
    LET n == GetUOffsetT(buf, offset)
    IN  IF n.ok THEN [v |-> [Bytes |-> buf, Pos |-> Add32(n.v, offset)], ok |-> TRUE]
        ELSE [v |-> ZeroTable, ok |-> FALSE]

FilesLength(t) ==
    LET o == TableOffset(t, 4)
    IN  IF ~o.ok THEN Panicked
        ELSE IF o.v # 0 THEN VectorLen(t, o.v) ELSE Ok(0)

\* Files(obj, j): v is obj after the call (untouched when the field is absent)
Files(t, obj, j) ==
    LET o == TableOffset(t, 4)
        x == Vector(t, o.v)
        e == Indirect(t, Add32(x.v, j * 4))
    IN  IF ~o.ok THEN [v |-> obj, ok |-> FALSE]
        ELSE IF o.v = 0 THEN [v |-> obj, ok |-> TRUE]
        ELSE IF ~x.ok \/ ~e.ok THEN [v |-> obj, ok |-> FALSE]
        ELSE [v |-> [Bytes |-> t.Bytes, Pos |-> e.v], ok |-> TRUE]

DataLength(t) ==
    LET o == TableOffset(t, 4)
    IN  IF ~o.ok THEN Panicked
        ELSE IF o.v # 0 THEN VectorLen(t, o.v) ELSE Ok(0)

Data(t, j) ==
    LET o == TableOffset(t, 4)
        a == Vector(t, o.v)
    IN  IF ~o.ok THEN Panicked
        ELSE IF o.v = 0 THEN Ok(0)
        ELSE IF ~a.ok THEN Panicked
        ELSE GetByte(t.Bytes, Add32(a.v, j))

(***************************************************************************)
(* handlers.GetDataVector and handlers.ParseFlatBuffer.  A result is       *)
(* [data/list, isNil, err].  A call ends in one of three ways: it returns   *)
(* its results v, a panic unwinds out of it, or a fatal runtime error ends *)
(* the process.                                                            *)
(***************************************************************************)
NilBlob == [data |-> <<>>, err |-> NoErr, isNil |-> TRUE]
NilList == [list |-> <<>>, err |-> NoErr, isNil |-> TRUE]
\* a nil *flatbuffer.FileData
NilFileData == [nil |-> TRUE]

Returning(v) == [v |-> v, ok |-> TRUE, fatal |-> FALSE]
Unwinding(zero) == [v |-> zero, ok |-> FALSE, fatal |-> FALSE]
Dying(zero) == [v |-> zero, ok |-> FALSE, fatal |-> TRUE]

\* defer func() { if r := recover(); r != nil { ... } }(): a panic in the body is
\* stopped and the call returns its unnamed results at their zero values, (nil, nil);
\* a fatal runtime error is not a panic and no recover stops it
Recover(body, zero) == IF body.ok \/ body.fatal THEN body ELSE Returning(zero)

\* data := make([]byte, dataLen), dataLen read from the buffer.  A length the
\* buffer itself can hold is allocated.  For a longer one (up to 2^32 - 1 bytes) the
\* runtime either finds the memory or, with memory exhausted, throws `fatal error:
\* runtime: out of memory`.  (On a 32-bit build a length of 2^31 or more makes make
\* panic; that ends as the copy loop's panic does.)
MakeExhausts(t, dataLen, exhausted) ==
    exhausted /\ (dataLen < 0 \/ dataLen > Len(t.Bytes))

\* for i := 0; i < dataLen; i++ { data[i] = fileDataFBObj.Data(i) }
RECURSIVE CopyData(_, _, _, _)
CopyData(t, dataLen, i, data) ==
    IF ~IntLess(i, dataLen) THEN [v |-> data, ok |-> TRUE]
    ELSE LET d == Data(t, i)
         IN  IF ~d.ok THEN [v |-> <<>>, ok |-> FALSE]
             ELSE CopyData(t, dataLen, i + 1, Append(data, d.v))

\* (mutation of GetDataVectorBody: a zero-length vector returned as an empty blob)
GetDataVectorKeepEmpty(fileDataFBObj, exhausted) ==
    LET dataLen == DataLength(fileDataFBObj)
        copied == CopyData(fileDataFBObj, dataLen.v, 0, <<>>)
    IN  IF fileDataFBObj = NilFileData
        THEN Returning([data |-> <<>>, err |-> Errorf("nil FileData object"),
                        isNil |-> TRUE])
        ELSE IF ~dataLen.ok THEN Unwinding(NilBlob)
        ELSE IF MakeExhausts(fileDataFBObj, dataLen.v, exhausted) THEN Dying(NilBlob)
        ELSE IF ~copied.ok THEN Unwinding(NilBlob)
        ELSE Returning([data |-> copied.v, err |-> NoErr, isNil |-> FALSE])

\* lines 68-82: the body of GetDataVector
GetDataVectorBody(fileDataFBObj, exhausted) ==
    LET dataLen == DataLength(fileDataFBObj)
        copied == CopyData(fileDataFBObj, dataLen.v, 0, <<>>)
    IN  IF fileDataFBObj = NilFileData
        THEN Returning([data |-> <<>>, err |-> Errorf("nil FileData object"),
                        isNil |-> TRUE])
        ELSE IF ~dataLen.ok THEN Unwinding(NilBlob)
        ELSE IF dataLen.v = 0
        THEN Returning([data |-> <<>>, err |-> Errorf("no data found"), isNil |-> TRUE])
        ELSE IF MakeExhausts(fileDataFBObj, dataLen.v, exhausted) THEN Dying(NilBlob)
        ELSE IF ~copied.ok THEN Unwinding(NilBlob)
        ELSE Returning([data |-> copied.v, err |-> NoErr, isNil |-> FALSE])

GetDataVector(fileDataFBObj, exhausted) ==
    Recover(GetDataVectorBody(fileDataFBObj, exhausted), NilBlob)

\* (mutation of ParseFiles: no `continue` when GetDataVector reports an error)
RECURSIVE ParseFilesNoContinue(_, _, _, _, _)
ParseFilesNoContinue(fileDataListFB, numFiles, i, fileDataList, exhausted) ==
    IF ~IntLess(i, numFiles)
    THEN Returning([list |-> fileDataList, err |-> NoErr, isNil |-> FALSE])
    ELSE LET f == Files(fileDataListFB, ZeroTable, i)
             dv == GetDataVector(f.v, exhausted)
         IN  IF ~f.ok THEN Unwinding(NilList)
             ELSE IF dv.fatal THEN Dying(NilList)
             ELSE IF ~dv.ok THEN Unwinding(NilList)
             ELSE ParseFilesNoContinue(fileDataListFB, numFiles, i + 1,
                                       Append(fileDataList, dv.v.data), exhausted)

\* (mutation of ParseFiles: GetDataVector's error returned instead of `continue`)
RECURSIVE ParseFilesFailFast(_, _, _, _, _)
ParseFilesFailFast(fileDataListFB, numFiles, i, fileDataList, exhausted) ==
    IF ~IntLess(i, numFiles)
    THEN Returning([list |-> fileDataList, err |-> NoErr, isNil |-> FALSE])
    ELSE LET f == Files(fileDataListFB, ZeroTable, i)
             dv == GetDataVector(f.v, exhausted)
         IN  IF ~f.ok THEN Unwinding(NilList)
             ELSE IF dv.fatal THEN Dying(NilList)
             ELSE IF ~dv.ok THEN Unwinding(NilList)
             ELSE IF ~dv.v.err.nil
                  THEN Returning([list |-> <<>>, err |-> dv.v.err, isNil |-> TRUE])
             ELSE ParseFilesFailFast(fileDataListFB, numFiles, i + 1,
                                     Append(fileDataList, dv.v.data), exhausted)

\* for i := 0; i < numFiles; i++ { ... }
RECURSIVE ParseFiles(_, _, _, _, _)
ParseFiles(fileDataListFB, numFiles, i, fileDataList, exhausted) ==
    IF ~IntLess(i, numFiles)
    THEN Returning([list |-> fileDataList, err |-> NoErr, isNil |-> FALSE])
    ELSE LET f == Files(fileDataListFB, ZeroTable, i)
             dv == GetDataVector(f.v, exhausted)
         IN  IF ~f.ok THEN Unwinding(NilList)
             ELSE IF dv.fatal THEN Dying(NilList)
             ELSE IF ~dv.ok THEN Unwinding(NilList)
             ELSE IF ~dv.v.err.nil
                  THEN ParseFiles(fileDataListFB, numFiles, i + 1, fileDataList, exhausted)
             ELSE ParseFiles(fileDataListFB, numFiles, i + 1,
                             Append(fileDataList, dv.v.data), exhausted)

\* lines 99-119: the body of ParseFlatBuffer
ParseFlatBufferBody(flatBufferData, exhausted) ==
    LET fileDataListFB == GetRootAsFileDataList(flatBufferData, 0)
        numFiles == FilesLength(fileDataListFB.v)
    IN  IF ~fileDataListFB.ok \/ ~numFiles.ok THEN Unwinding(NilList)
        ELSE ParseFiles(fileDataListFB.v, numFiles.v, 0, <<>>, exhausted)

ParseFlatBuffer(flatBufferData, exhausted) ==
    Recover(ParseFlatBufferBody(flatBufferData, exhausted), NilList)

(***************************************************************************)
(* The codec as a data flow: caller -> CreateFlatBuffer -> wire ->         *)
(* ParseFlatBuffer -> caller.  The wire may deliver only a prefix.         *)
(***************************************************************************)
ClientIdle ==
    /\ config = [UserId |-> "", APIURL |-> ""]
    /\ call = [op |-> "none"]
    /\ requests = <<>>
    /\ opened = <<>>
    /\ ret = [op |-> "none"]
    /\ panic = FALSE
    /\ crashed = FALSE

CodecInit ==
    /\ dataList \in BlobLists
    /\ wire = <<>>
    /\ decoded = NilList
    /\ phase = "input"
    /\ ClientIdle

Encode ==
    /\ phase = "input"
    /\ wire' = CreateFlatBuffer(dataList).bytes
    /\ phase' = "encoded"
    /\ UNCHANGED <<dataList, decoded, clientVars, panic, crashed>>

Truncate ==
    /\ phase = "encoded"
    /\ \E n \in 1..(Len(wire) - 1) : wire' = SubSeq(wire, 1, n)
    /\ phase' = "truncated"
    /\ UNCHANGED <<dataList, decoded, clientVars, panic, crashed>>

\* the buffer arrives empty, or with one byte overwritten; taken for the lists
\* whose blobs each repeat one byte value, which keeps every layout of the buffer
DamageVals == {0, 255}
UniformBlobs(list) ==
    \A i \in 1..Len(list) : \A j \in 1..Len(list[i]) : list[i][j] = list[i][1]
Damage ==
    /\ phase = "encoded"
    /\ UniformBlobs(dataList)
    /\ \/ wire' = <<>>
       \/ \E i \in 1..Len(wire), v \in DamageVals : wire' = [wire EXCEPT ![i] = v]
    /\ phase' = "damaged"
    /\ UNCHANGED <<dataList, decoded, clientVars, panic, crashed>>

\* how a call of the codec ended, as the caller sees it
Ended(r) ==
    /\ decoded' = r.v
    /\ panic' = (~r.ok /\ ~r.fatal)
    /\ crashed' = r.fatal

\* the ways one call of ParseFlatBuffer can end, memory short or not.  Only a
\* make that asks for more than the buffer holds reads the state of the
\* memory, so a call that does not die with memory short ends the same way
\* with memory to spare
ParseOutcomes(flatBufferData) ==
    LET short == ParseFlatBuffer(flatBufferData, TRUE)
    IN  IF short.fatal THEN {short, ParseFlatBuffer(flatBufferData, FALSE)}
        ELSE {short}

Decode ==
    /\ phase \in {"encoded", "truncated", "damaged"}
    /\ \E r \in ParseOutcomes(wire) : Ended(r)
    /\ phase' = CASE phase = "encoded" -> "decoded"
                  [] phase = "truncated" -> "decodedTruncated"
                  [] phase = "damaged" -> "decodedDamaged"
    /\ UNCHANGED <<dataList, wire, clientVars>>

\* GetDataVector is exported: called on its own with a nil pointer or with an
\* element of the buffer
Extract ==
    /\ phase = "encoded"
    /\ \E obj \in {NilFileData} \cup
                  {Files(GetRootAsFileDataList(wire, 0).v, ZeroTable, i - 1).v :
                      i \in 1..Len(dataList)},
          exhausted \in BOOLEAN :
           Ended(GetDataVector(obj, exhausted))
    /\ phase' = "extracted"
    /\ UNCHANGED <<dataList, wire, clientVars>>

CodecNext == Encode \/ Truncate \/ Damage \/ Decode \/ Extract

CodecSpec == CodecInit /\ [][CodecNext]_vars

(***************************************************************************)
(* client.go.  The environment of a call: the file behind filePath and     *)
(* the outcome of the HTTP exchange.                                       *)
(***************************************************************************)
UserIds == {"", "testuser"}
APIURLs == {"", "http://h"}
Configs == [UserId : UserIds, APIURL : APIURLs]
Keys == {"", "k", "k\n"}
FilePaths == {"", "f.txt", "d/f.txt"}
ClientLists == {<<>>, << <<>> >>, << <<7>>, <<255>> >>}

\* os.Open fails ("unopenable"), io.ReadAll fails ("unreadable"), or the file is read
FileStates ==
    {[data |-> <<>>, err |-> "open: no such file or directory", kind |-> "unopenable"],
     [data |-> <<>>, err |-> "read: is a directory", kind |-> "unreadable"]}
    \cup {[data |-> d, err |-> "", kind |-> "file"] : d \in {<<7>>}}

NilResp == [nil |-> TRUE, StatusCode |-> 0, Body |-> <<>>]
Response(status, body) == [nil |-> FALSE, StatusCode |-> status, Body |-> body]

PlainBodies == {<<111, 107>>}
\* what Get may receive: encodings, prefixes of them, and encodings with the byte
\* at offset 35 overwritten
WireBodies ==
    LET full == {CreateFlatBuffer(l).bytes : l \in ClientLists}
        cut(b) == {0, 12, 47} \cap (0..(Len(b) - 1))
        hit(b) == {36} \cap (1..Len(b))
    IN  full \cup UNION {{SubSeq(b, 1, n) : n \in cut(b)} : b \in full}
             \cup UNION {{[b EXCEPT ![i] = 255] : i \in hit(b)} : b \in full}

\* the exchange fails, or a response arrives whose body may fail while being read
NetOutcomes(statuses, bodies, readFailures) ==
    {[err |-> "dial tcp: connection refused", StatusCode |-> 0,
      Body |-> <<>>, fail |-> TRUE, readFails |-> FALSE]}
    \cup [err : {""}, StatusCode : statuses, Body : bodies,
          fail : {FALSE}, readFails : readFailures]

\* net/url rejects a URL holding an ASCII control character (the only cause of a
\* parse failure among the URLs built from APIURLs and Keys)
RECURSIVE stringContainsCTLByte(_)
stringContainsCTLByte(str) ==
    /\ str # ""
    /\ \/ Head(str) \in {"\n", "\t", "\r"}
       \/ stringContainsCTLByte(Tail(str))

\* strconv.Quote, as url.Error prints the URL
RECURSIVE Quoted(_)
Quoted(str) ==
    IF str = "" THEN ""
    ELSE (CASE Head(str) = "\n" -> "\\n"
            [] Head(str) = "\t" -> "\\t"
            [] Head(str) = "\r" -> "\\r"
            [] Head(str) = "\"" -> "\\\""
            [] Head(str) = "\\" -> "\\\\"
            [] OTHER -> Head(str)) \o Quoted(Tail(str))
Quote(str) == "\"" \o Quoted(str) \o "\""

HasPrefix(str, prefix) ==
    Len(str) >= Len(prefix) /\ SubSeq(str, 1, Len(prefix)) = prefix

\* http.NewRequest(method, url, body): the request, or url.Parse's error
NewRequest(method, url, hasBody, body) ==
    IF stringContainsCTLByte(url)
    THEN [err |-> "parse " \o Quote(url) \o ": net/url: invalid control character in URL",
          ok |-> FALSE]
    ELSE [err |-> "", ok |-> TRUE,
          req |-> [body |-> body, method |-> method, url |-> url,
                   hasBody |-> hasBody, User |-> ""]]

\* req.Header.Set("User", value)
HeaderSetUser(req, value) == [req EXCEPT !.User = value]

\* (&http.Client{}).Do(req): the transport refuses a URL that is not http(s),
\* otherwise the exchange ends as the environment decides
UrlErrorOp(method) ==
    CASE method = "POST" -> "Post" [] method = "GET" -> "Get" [] method = "DELETE" -> "Delete"
Do(req, net) ==
    LET prefix == UrlErrorOp(req.method) \o " " \o Quote(req.url) \o ": "
    IN  IF ~(HasPrefix(req.url, "http://") \/ HasPrefix(req.url, "https://"))
        THEN [err |-> Errorf(prefix \o "unsupported protocol scheme \"\""), resp |-> NilResp]
        ELSE IF net.fail
        THEN [err |-> Errorf(prefix \o net.err), resp |-> NilResp]
        ELSE [err |-> NoErr, resp |-> Response(net.StatusCode, net.Body)]

\* io.ReadAll(resp.Body)
ReadAll(resp, net) ==
    IF net.readFails THEN [data |-> <<>>, err |-> Errorf("unexpected EOF")]
    ELSE [data |-> resp.Body, err |-> NoErr]

\* what a call leaves behind: its results, the requests it handed to
\* http.Client.Do and the paths it handed to os.Open
Returns(val, reqs, paths) ==
    [requests |-> reqs, opened |-> paths, ok |-> TRUE, fatal |-> FALSE, val |-> val]
\* a call that a panic unwinds, and one a fatal runtime error ends: it returns
\* nothing, val is not a result
Panics(val, reqs, paths) ==
    [requests |-> reqs, opened |-> paths, ok |-> FALSE, fatal |-> FALSE, val |-> val]
Dies(val, reqs, paths) ==
    [requests |-> reqs, opened |-> paths, ok |-> FALSE, fatal |-> TRUE, val |-> val]

\* (mutation of Ciaos: the APIURL check left out)
CiaosNoURLCheck(cfg) ==
    IF cfg.UserId = ""
    THEN [err |-> Errorf("user id must not be empty"), op |-> "Ciaos", ptrNil |-> TRUE]
    ELSE [err |-> NoErr, op |-> "Ciaos", ptrNil |-> FALSE]

Ciaos(cfg) ==
    IF cfg.UserId = ""
    THEN [err |-> Errorf("user id must not be empty"), op |-> "Ciaos", ptrNil |-> TRUE]
    ELSE IF cfg.APIURL = ""
    THEN [err |-> Errorf("api url must not be empty"), op |-> "Ciaos", ptrNil |-> TRUE]
    ELSE [err |-> NoErr, op |-> "Ciaos", ptrNil |-> FALSE]

\* fmt.Sprintf of each operation's URL
PutURL(cfg, key) == cfg.APIURL \o "/put/" \o key
UpdateKeyURL(cfg, oldKey, newKey) == cfg.APIURL \o "/update_key/" \o oldKey \o "/" \o newKey
\* (mutation of UpdateURL: the path of Put)
UpdateURLAsPut(cfg, key) == cfg.APIURL \o "/put/" \o key
UpdateURL(cfg, key) == cfg.APIURL \o "/update/" \o key
AppendURL(cfg, key) == cfg.APIURL \o "/append/" \o key
DeleteURL(cfg, key) == cfg.APIURL \o "/delete/" \o key
GetURL(cfg, key) == cfg.APIURL \o "/get/" \o key

\* The block every operation repeats: if NewRequest failed return its error,
\* else set the User header and call client.Do.  [resp, err, requests]
\* (mutation of Exchanged: a failed client.Do tried a second time)
ExchangedRetry(req, done, doMsg) ==
    IF ~done.err.nil
    THEN [requests |-> <<req, req>>, err |-> Errorf(doMsg \o done.err.msg), resp |-> NilResp]
    ELSE [requests |-> <<req>>, err |-> NoErr, resp |-> done.resp]

Exchanged(req, done, doMsg) ==
    IF ~done.err.nil
    THEN [requests |-> <<req>>, err |-> Errorf(doMsg \o done.err.msg), resp |-> NilResp]
    ELSE [requests |-> <<req>>, err |-> NoErr, resp |-> done.resp]
Sent(req, net, doMsg) == Exchanged(req, Do(req, net), doMsg)
Exchange(nr, userId, net, reqMsg, doMsg) ==
    IF ~nr.ok
    THEN [requests |-> <<>>, err |-> Errorf(reqMsg \o nr.err), resp |-> NilResp]
    ELSE Sent(HeaderSetUser(nr.req, userId), net, doMsg)

RespResult(op, resp, err) == [err |-> err, op |-> op, resp |-> resp]
RespFailure(op, msg, paths) == Returns(RespResult(op, NilResp, Errorf(msg)), <<>>, paths)
RespReturn(op, x, paths) == Returns(RespResult(op, x.resp, x.err), x.requests, paths)

\* (mutation of PutPreCheck: the file path checked first)
PutPreCheckPathFirst(cfg, filePath) ==
    IF filePath = "" THEN "file_path cannot be empty or None"
    ELSE IF cfg.UserId = "" THEN "user id must not be empty"
    ELSE IF cfg.APIURL = "" THEN "api url must not be empty"
    ELSE ""

\* Put's checks before any I/O: the message of the first that fails, "" if none
PutPreCheck(cfg, filePath) ==
    IF cfg.UserId = "" THEN "user id must not be empty"
    ELSE IF cfg.APIURL = "" THEN "api url must not be empty"
    ELSE IF filePath = "" THEN "file_path cannot be empty or None"
    ELSE ""

\* (mutation of OpenFailure: the path left out of the message)
OpenFailureNoPath(filePath) == "file not found: "

\* the message for a failed os.Open
OpenFailure(filePath) == "file not found: " \o filePath

PutEncoded(cfg, filePath, key, flatBufferData, net) ==
    IF ~flatBufferData.err.nil
    THEN RespFailure("Put", "failed to create FlatBuffer Data: " \o flatBufferData.err.msg,
                     <<filePath>>)
    ELSE RespReturn("Put",
                    Exchange(NewRequest("POST", PutURL(cfg, key), TRUE, flatBufferData.bytes),
                             cfg.UserId, net,
                             "failed to create PUT request: ", "HTTP PUT request failed: "),
                    <<filePath>>)

ConfigPut(cfg, filePath, key, file, net) ==
    IF PutPreCheck(cfg, filePath) # ""
    THEN RespFailure("Put", PutPreCheck(cfg, filePath), <<>>)
    ELSE IF file.kind = "unopenable"
    THEN RespFailure("Put", OpenFailure(filePath), <<filePath>>)
    ELSE IF file.kind = "unreadable"
    THEN RespFailure("Put", "failed to read file: " \o file.err, <<filePath>>)
    ELSE PutEncoded(cfg, filePath, key, CreateFlatBuffer(<<file.data>>), net)

\* PutBinary, Update and Append: encode, then the request
SendList(op, cfg, url, flatBufferData, net, reqMsg, doMsg) ==
    IF ~flatBufferData.err.nil
    THEN RespFailure(op, "failed to create FlatBuffer Data: " \o flatBufferData.err.msg, <<>>)
    ELSE RespReturn(op,
                    Exchange(NewRequest("POST", url, TRUE, flatBufferData.bytes),
                             cfg.UserId, net, reqMsg, doMsg),
                    <<>>)

ConfigPutBinary(cfg, key, list, net) ==
    SendList("PutBinary", cfg, PutURL(cfg, key), CreateFlatBuffer(list), net,
             "failed to create POST request: ", "HTTP POST request failed: ")

ConfigUpdate(cfg, key, list, net) ==
    SendList("Update", cfg, UpdateURL(cfg, key), CreateFlatBuffer(list), net,
             "failed to create PUT request: ", "HTTP error during update: ")

ConfigAppend(cfg, key, list, net) ==
    SendList("Append", cfg, AppendURL(cfg, key), CreateFlatBuffer(list), net,
             "failed to create POST request: ", "HTTP error during append: ")

\* the returned string is held as the bytes of the body: string(body)
UpdateKeyRead(x, body) ==
    IF ~x.err.nil THEN Returns([err |-> x.err, op |-> "UpdateKey", str |-> <<>>], x.requests, <<>>)
    ELSE IF ~body.err.nil
    THEN Returns([err |-> Errorf("failed to read response body: " \o body.err.msg),
                  op |-> "UpdateKey", str |-> <<>>],
                 x.requests, <<>>)
    ELSE Returns([err |-> NoErr, op |-> "UpdateKey", str |-> body.data], x.requests, <<>>)

UpdateKeySent(x, net) == UpdateKeyRead(x, ReadAll(x.resp, net))

ConfigUpdateKey(cfg, oldKey, newKey, net) ==
    UpdateKeySent(Exchange(NewRequest("POST", UpdateKeyURL(cfg, oldKey, newKey), FALSE, <<>>),
                           cfg.UserId, net,
                           "failed to create POST request: ", "HTTP error during key update: "),
                  net)

ConfigDelete(cfg, key, net) ==
    RespReturn("Delete",
               Exchange(NewRequest("DELETE", DeleteURL(cfg, key), FALSE, <<>>),
                        cfg.UserId, net,
                        "failed to create DELETE request: ", "HTTP error during deletion: "),
               <<>>)

\* (mutation of GetFailure: an empty, non-nil list returned with the error)
GetFailureEmptyList(err, reqs) ==
    Returns([list |-> <<>>, err |-> err, isNil |-> FALSE, op |-> "Get"], reqs, <<>>)

\* Get's `return nil, fmt.Errorf(...)`
GetFailure(err, reqs) ==
    Returns([list |-> <<>>, err |-> err, isNil |-> TRUE, op |-> "Get"], reqs, <<>>)

\* Get has no recover of its own: a panic out of ParseFlatBuffer unwinds Get too
GetParsed(x, parsed) ==
    IF parsed.fatal
    THEN Dies([list |-> <<>>, err |-> NoErr, isNil |-> TRUE, op |-> "Get"], x.requests, <<>>)
    ELSE IF ~parsed.ok
    THEN Panics([list |-> <<>>, err |-> NoErr, isNil |-> TRUE, op |-> "Get"], x.requests, <<>>)
    ELSE IF ~parsed.v.err.nil
    THEN GetFailure(Errorf("error parsing FlatBuffer: " \o parsed.v.err.msg), x.requests)
    ELSE Returns([list |-> parsed.v.list, err |-> NoErr, isNil |-> parsed.v.isNil,
                  op |-> "Get"], x.requests, <<>>)

GetRead(x, bodyBytes, exhausted) ==
    IF ~bodyBytes.err.nil
    THEN GetFailure(Errorf("failed to read response body: " \o bodyBytes.err.msg), x.requests)
    ELSE GetParsed(x, ParseFlatBuffer(bodyBytes.data, exhausted))

GetSent(x, net, exhausted) ==
    IF ~x.err.nil THEN GetFailure(x.err, x.requests)
    ELSE GetRead(x, ReadAll(x.resp, net), exhausted)

ConfigGet(cfg, key, net, exhausted) ==
    GetSent(Exchange(NewRequest("GET", GetURL(cfg, key), FALSE, <<>>),
                     cfg.UserId, net,
                     "failed to create GET request: ", "HTTP error during retrieval: "),
            net, exhausted)

(***************************************************************************)
(* The client as a state machine: one action per exported function.        *)
(***************************************************************************)
CodecIdle ==
    /\ dataList = <<>>
    /\ wire = <<>>
    /\ decoded = NilList
    /\ phase = "idle"

Init ==
    /\ config \in Configs
    /\ call = [op |-> "none"]
    /\ requests = <<>>
    /\ opened = <<>>
    /\ ret = [op |-> "none"]
    /\ panic = FALSE
    /\ crashed = FALSE
    /\ CodecIdle

\* a call is made by a running process and leaves its outcome behind
Returned(r) ==
    /\ ~crashed
    /\ ret' = r.val
    /\ requests' = r.requests
    /\ opened' = r.opened
    /\ panic' = (~r.ok /\ ~r.fatal)
    /\ crashed' = r.fatal

\* Ciaos validates a Config value; the caller goes on with the one it got back
CiaosCall ==
    \E cfg \in Configs :
        /\ ~crashed
        /\ call' = [op |-> "Ciaos", cfg |-> cfg]
        /\ ret' = Ciaos(cfg)
        /\ requests' = <<>>
        /\ opened' = <<>>
        /\ panic' = FALSE
        /\ crashed' = FALSE
        /\ config' = IF Ciaos(cfg).ptrNil THEN config ELSE cfg
        /\ UNCHANGED codecVars

Put ==
    \E filePath \in FilePaths, key \in Keys, file \in FileStates,
       net \in NetOutcomes({200}, PlainBodies, {FALSE}) :
        /\ call' = [op |-> "Put", net |-> net, key |-> key,
                    filePath |-> filePath, file |-> file]
        /\ Returned(ConfigPut(config, filePath, key, file, net))
        /\ UNCHANGED <<config, codecVars>>

PutBinary ==
    \E key \in Keys, list \in ClientLists, net \in NetOutcomes({200}, PlainBodies, {FALSE}) :
        /\ call' = [dataList |-> list, op |-> "PutBinary", net |-> net, key |-> key]
        /\ Returned(ConfigPutBinary(config, key, list, net))
        /\ UNCHANGED <<config, codecVars>>

UpdateKey ==
    \E oldKey \in Keys, newKey \in Keys, net \in NetOutcomes({200}, PlainBodies, BOOLEAN) :
        /\ call' = [op |-> "UpdateKey", net |-> net, oldKey |-> oldKey, newKey |-> newKey]
        /\ Returned(ConfigUpdateKey(config, oldKey, newKey, net))
        /\ UNCHANGED <<config, codecVars>>

Update ==
    \E key \in Keys, list \in ClientLists, net \in NetOutcomes({200}, PlainBodies, {FALSE}) :
        /\ call' = [dataList |-> list, op |-> "Update", net |-> net, key |-> key]
        /\ Returned(ConfigUpdate(config, key, list, net))
        /\ UNCHANGED <<config, codecVars>>

Append_ ==
    \E key \in Keys, list \in ClientLists, net \in NetOutcomes({200}, PlainBodies, {FALSE}) :
        /\ call' = [dataList |-> list, op |-> "Append", net |-> net, key |-> key]
        /\ Returned(ConfigAppend(config, key, list, net))
        /\ UNCHANGED <<config, codecVars>>

Delete ==
    \E key \in Keys, net \in NetOutcomes({200}, PlainBodies, {FALSE}) :
        /\ call' = [op |-> "Delete", net |-> net, key |-> key]
        /\ Returned(ConfigDelete(config, key, net))
        /\ UNCHANGED <<config, codecVars>>

Get ==
    \E key \in Keys, net \in NetOutcomes({200, 404}, WireBodies, BOOLEAN),
       exhausted \in BOOLEAN :
        /\ call' = [exhausted |-> exhausted, op |-> "Get", net |-> net, key |-> key]
        /\ Returned(ConfigGet(config, key, net, exhausted))
        /\ UNCHANGED <<config, codecVars>>

Next == CiaosCall \/ Put \/ PutBinary \/ UpdateKey \/ Update \/ Append_ \/ Delete \/ Get

Spec == Init /\ [][Next]_vars

(***************************************************************************)
(* Properties of the codec, under CodecSpec.                               *)
(***************************************************************************)
RECURSIVE DropEmpty(_)
DropEmpty(list) ==
    IF list = <<>> THEN <<>>
    ELSE IF Head(list) = <<>> THEN DropEmpty(Tail(list))
    ELSE <<Head(list)>> \o DropEmpty(Tail(list))

NoEmptyBlob(list) == \A i \in 1..Len(list) : Len(list[i]) >= 1

\* C1: for every list whose blobs all have length >= 1 (the empty list included),
\* ParseFlatBuffer(CreateFlatBuffer(L)) returns a nil error and a list equal to L.
C1_RoundTripNonEmptyBlobs ==
    (phase = "decoded" /\ NoEmptyBlob(dataList))
        => decoded.err.nil /\ decoded.list = dataList

C1_Witness ==
    /\ phase = "decoded"
    /\ Len(dataList) = 2
    /\ NoEmptyBlob(dataList)
    /\ dataList[1] # dataList[2]
    /\ decoded.list = dataList

\* C2 as stated: ParseFlatBuffer(CreateFlatBuffer(L)) equals L for every list L,
\* lists containing zero-length blobs included.
C2_RoundTripEveryList ==
    phase = "decoded" => decoded.list = dataList

\* C2 amended: ParseFlatBuffer(CreateFlatBuffer(L)) equals L exactly for the lists
\* L (the empty list included) that hold no zero-length blob.
C2_RoundTripIffNoEmptyBlob ==
    phase = "decoded" => (decoded.list = dataList <=> NoEmptyBlob(dataList))

C2_Witness ==
    /\ phase = "decoded"
    /\ \E i \in 1..Len(dataList) : dataList[i] = <<>>
    /\ decoded.list # dataList

\* C3: ParseFlatBuffer(CreateFlatBuffer(L)) is L with every zero-length blob removed,
\* the other blobs in their original relative order, and the error is nil.
C3_ZeroLengthBlobsDropped ==
    phase = "decoded" => decoded.err.nil /\ decoded.list = DropEmpty(dataList)

C3_Witness ==
    /\ phase = "decoded"
    /\ Len(dataList) = 2
    /\ dataList[1] = <<>>
    /\ dataList[2] # <<>>
    /\ decoded.list = <<dataList[2]>>
    /\ decoded.err.nil

\* C4: for every proper non-empty prefix P of an encoded buffer, ParseFlatBuffer(P)
\* returns a non-nil error.
C4_TruncationRejected ==
    phase = "decodedTruncated" => ~decoded.err.nil

\* the root table of a buffer, the element its entry i (from 0) refers to, and the
\* length-tagged payload of an element, read with the accessors and no filtering
RootOf(buf) == GetRootAsFileDataList(buf, 0).v
EntryOf(buf, i) == Files(RootOf(buf), ZeroTable, i)
PayloadOf(t) == CopyData(t, DataLength(t).v, 0, <<>>)

\* C13: the buffer CreateFlatBuffer produces for a list L, zero-length blobs
\* included, has an element table of exactly len(L) entries, and entry i refers to
\* an element whose length-tagged payload is exactly L[i], for every i.
C13_TableMatchesInput ==
    phase = "encoded" =>
        /\ FilesLength(RootOf(wire)) = Ok(Len(dataList))
        /\ \A i \in 1..Len(dataList) :
               /\ EntryOf(wire, i - 1).ok
               /\ DataLength(EntryOf(wire, i - 1).v) = Ok(Len(dataList[i]))
               /\ PayloadOf(EntryOf(wire, i - 1).v) = Ok(dataList[i])

C13_Witness ==
    /\ phase = "encoded"
    /\ Len(dataList) = 2
    /\ dataList[1] = <<>>
    /\ Len(dataList[2]) = 2
    /\ FilesLength(RootOf(wire)) = Ok(2)
    /\ PayloadOf(EntryOf(wire, 0).v) = Ok(<<>>)
    /\ PayloadOf(EntryOf(wire, 1).v) = Ok(dataList[2])

\* C12: whatever buffer ParseFlatBuffer is given (well-formed, truncated, empty or
\* with a byte overwritten), the call returns to its caller: no panic raised while
\* the buffer is read unwinds out of ParseFlatBuffer, GetDataVector or Get, and the
\* process is not ended.
C12_NoPanicEscapes ==
    (phase \in {"decoded", "decodedTruncated", "decodedDamaged", "extracted"}
        \/ ret.op = "Get")
        => ~panic /\ ~crashed

(***************************************************************************)
(* Properties of the client, under Spec.                                   *)
(***************************************************************************)
Operations == {"Put", "PutBinary", "UpdateKey", "Update", "Append", "Delete", "Get"}

\* C5: Ciaos returns (nil, error) when UserId or APIURL is empty, a non-nil pointer
\* and a nil error exactly when both are non-empty, and issues no HTTP request.
C5_CiaosValidates ==
    ret.op = "Ciaos" =>
        /\ ret.ptrNil <=> (call.cfg.UserId = "" \/ call.cfg.APIURL = "")
        /\ ret.ptrNil <=> ~ret.err.nil
        /\ requests = <<>>

C5_Witness ==
    /\ ret.op = "Ciaos"
    /\ call.cfg.UserId # ""
    /\ call.cfg.APIURL = ""
    /\ ret.ptrNil
    /\ ~ret.err.nil

\* C6: an operation invoked on a Config whose UserId or APIURL is empty returns an
\* error and hands no request to the transport.
C6_NoRequestWithEmptyConfig ==
    (ret.op \in Operations /\ (config.UserId = "" \/ config.APIURL = ""))
        => ~ret.err.nil /\ requests = <<>>

\* C7: Put checks UserId, then APIURL, then filePath; the first failing check alone
\* decides the error, and then no file is opened and no request is issued.
C7_PutPreCheckOrder ==
    (ret.op = "Put" /\ (config.UserId = "" \/ config.APIURL = "" \/ call.filePath = ""))
        => /\ ret.resp.nil
           /\ ~ret.err.nil
           /\ ret.err.msg = (IF config.UserId = "" THEN "user id must not be empty"
                             ELSE IF config.APIURL = "" THEN "api url must not be empty"
                             ELSE "file_path cannot be empty or None")
           /\ opened = <<>>
           /\ requests = <<>>

C7_Witness ==
    /\ ret.op = "Put"
    /\ config.UserId = ""
    /\ config.APIURL = ""
    /\ call.filePath = ""
    /\ ret.err.msg = "user id must not be empty"

\* C8: Put with a valid config and a non-empty filePath that cannot be opened returns
\* (nil, "file not found: <filePath>") and issues no request.
C8_PutFileNotFound ==
    (/\ ret.op = "Put"
     /\ config.UserId # "" /\ config.APIURL # "" /\ call.filePath # ""
     /\ call.file.kind = "unopenable")
        => /\ ret.resp.nil
           /\ ~ret.err.nil
           /\ ret.err.msg = "file not found: " \o call.filePath
           /\ requests = <<>>

C8_Witness ==
    /\ ret.op = "Put"
    /\ config.UserId # "" /\ config.APIURL # ""
    /\ call.filePath = "d/f.txt"
    /\ call.key = "k"
    /\ call.file.kind = "unopenable"
    /\ ret.err.msg = "file not found: d/f.txt"
    /\ opened = <<"d/f.txt">>

\* the row of the operation table for the last call
TableMethod == IF ret.op = "Delete" THEN "DELETE" ELSE IF ret.op = "Get" THEN "GET" ELSE "POST"
TableURL ==
    CASE ret.op \in {"Put", "PutBinary"} -> config.APIURL \o "/put/" \o call.key
      [] ret.op = "UpdateKey" ->
            config.APIURL \o "/update_key/" \o call.oldKey \o "/" \o call.newKey
      [] ret.op = "Update" -> config.APIURL \o "/update/" \o call.key
      [] ret.op = "Append" -> config.APIURL \o "/append/" \o call.key
      [] ret.op = "Delete" -> config.APIURL \o "/delete/" \o call.key
      [] ret.op = "Get" -> config.APIURL \o "/get/" \o call.key
TableHasBody == ret.op \in {"Put", "PutBinary", "Update", "Append"}
TableBody ==
    IF ret.op = "Put" THEN CreateFlatBuffer(<<call.file.data>>).bytes
    ELSE IF ret.op \in {"PutBinary", "Update", "Append"}
    THEN CreateFlatBuffer(call.dataList).bytes
    ELSE <<>>

\* C9: every request an operation issues has the method and URL of the operation
\* table, the header User equal to config.UserId, and the encoded blob list as body
\* for Put, PutBinary, Update and Append and no body for UpdateKey, Delete and Get.
C9_RequestsFollowTable ==
    \A i \in 1..Len(requests) :
        /\ ret.op \in Operations
        /\ requests[i].method = TableMethod
        /\ requests[i].url = TableURL
        /\ requests[i].User = config.UserId
        /\ requests[i].hasBody = TableHasBody
        /\ requests[i].body = TableBody

C9_Witness ==
    /\ ret.op = "Update"
    /\ call.dataList = << <<7>>, <<255>> >>
    /\ Len(requests) = 1
    /\ requests[1].method = "POST"
    /\ requests[1].url = "http://h/update/k"
    /\ requests[1].User = "testuser"
    /\ ParseFlatBuffer(requests[1].body, FALSE).v.list = << <<7>>, <<255>> >>

\* path/filepath.Base, the "base name" of Put's doc comment
RECURSIVE TrimTrailingSlashes(_)
TrimTrailingSlashes(path) ==
    IF path # "" /\ SubSeq(path, Len(path), Len(path)) = "/"
    THEN TrimTrailingSlashes(SubSeq(path, 1, Len(path) - 1))
    ELSE path
RECURSIVE AfterLastSlash(_, _)
AfterLastSlash(path, i) ==
    IF i = 0 THEN path
    ELSE IF SubSeq(path, i, i) = "/" THEN SubSeq(path, i + 1, Len(path))
    ELSE AfterLastSlash(path, i - 1)
Base(path) ==
    IF path = "" THEN "."
    ELSE LET trimmed == TrimTrailingSlashes(path)
         IN  IF trimmed = "" THEN "/" ELSE AfterLastSlash(trimmed, Len(trimmed))

\* C10: Put called with an empty key uses the base name of filePath as the key: the
\* request goes to {base}/put/<base name of filePath>.
C10_EmptyKeyIsBaseName ==
    (ret.op = "Put" /\ call.key = "")
        => \A i \in 1..Len(requests) :
               requests[i].url = config.APIURL \o "/put/" \o Base(call.filePath)

\* C11: whenever an operation returns a non-nil error, the other result is the zero
\* value: a nil response for Put, PutBinary, Update, Append and Delete, a nil list
\* for Get and the empty string for UpdateKey.
C11_NoResultWithError ==
    (ret.op \in Operations /\ ~ret.err.nil) =>
        CASE ret.op = "UpdateKey" -> ret.str = <<>>
          [] ret.op = "Get" -> ret.isNil /\ ret.list = <<>>
          [] OTHER -> ret.resp.nil

C11_Witness ==
    /\ ret.op = "Get"
    /\ Len(requests) = 1
    /\ call.net.readFails
    /\ call.net.Body # <<>>
    /\ ~ret.err.nil
    /\ ret.isNil

\* the last call was an operation whose pre-checks and file read succeeded (the
\* encoding always succeeds)
Prepared ==
    /\ ret.op \in Operations
    /\ ret.op = "Put" =>
           /\ config.UserId # "" /\ config.APIURL # "" /\ call.filePath # ""
           /\ call.file.kind = "file"

\* C14 as stated: every call of an operation issues at most one request, and
\* exactly one when its pre-checks, file read and encoding succeed.
C14_ExactlyOneWhenPrepared ==
    /\ Len(requests) <= 1
    /\ Prepared => Len(requests) = 1

\* C14 amended: every call of an operation hands at most one request to the HTTP
\* client, whatever the outcome of the exchange (no retry); it hands over exactly
\* one when its pre-checks, file read, encoding and http.NewRequest succeed, and
\* none when one of them fails.
C14_OneRequestWhenConstructed ==
    /\ Len(requests) <= 1
    /\ ret.op \in Operations =>
           (Len(requests) = 1 <=>
               Prepared /\ NewRequest(TableMethod, TableURL, TableHasBody, TableBody).ok)

C14_Witness ==
    /\ ret.op = "Get"
    /\ config.APIURL # ""
    /\ call.key = "k"
    /\ call.net.fail
    /\ ~ret.err.nil
    /\ Len(requests) = 1

\* the last call was a Get that received a response and read its body to the end
GetReadBody ==
    /\ ret.op = "Get"
    /\ Len(requests) = 1
    /\ Do(requests[1], call.net).err.nil
    /\ ~call.net.readFails

====
